---- MODULE Spec2Model ----
(***************************************************************************)
(* Model of bob's fluent builder (src/src/Builder.ts).                     *)
(*                                                                         *)
(* Two layers of the source are modelled together:                         *)
(*   - the static layer: the Builder<C, T, S> type, which the TypeScript   *)
(*     compiler applies to every call before the program runs;             *)
(*   - the runtime layer: builderDef's Proxy over `base`, whose `get` trap *)
(*     synthesizes the setters and `build`.                                *)
(* The target type T is the README's User: email and id required, age      *)
(* optional.  "zip" is a property name T does not declare.                 *)
(***************************************************************************)
EXTENDS Integers, FiniteSets, Sequences, TLC

VARIABLES
    tmpl,      \* contents the caller's template object was given (never assigned)
    nb,        \* number of builderDef/builder calls made so far
    heap,      \* object id -> record (property name -> value)
    target,    \* builder -> object id its Proxy wraps (`base`)
    ctor,      \* builder -> whether a finalizer was passed
    origin,    \* builder -> "template" (builderDef) or "empty" (builder)
    handles,   \* handles the caller holds: [chain, p, S]
    written,   \* builder -> the pairs passed to setter calls, latest per name
    ret,       \* what the most recent build() returned, and through which handle
    last       \* the most recent call: what was called and whether it ran

vars == <<tmpl, nb, heap, target, ctor, origin, handles, written, ret, last>>

----------------------------------------------------------------------------
(* Bounds *)

MaxVal == 2
MaxBuilders == 1
MaxHandles == 3
MaxTemplateVal == 1

----------------------------------------------------------------------------
(* The target type T and the names and values the caller may use *)

Required == {"email", "id"}
Optional == {"age"}
Fields == Required \cup Optional
Props == Fields \cup {"zip", "build"}
Values == 1..MaxVal
Undefined == 0
TemplateObj == 0
Builders == 1..MaxBuilders
Objects == 0..MaxBuilders
\* Proxy ids: builder p's Proxy is p; id 0 is no Proxy the code creates
Proxies == 0..MaxBuilders

Empty == [k \in {} |-> Undefined]
Records(D) == UNION {[K -> Values] : K \in SUBSET D}
\* the templates the caller may pass: any subset of T's fields, each with a
\* default value
Templates == UNION {[K -> 1..MaxTemplateVal] : K \in SUBSET Fields}

----------------------------------------------------------------------------
(* Static layer: type Builder<C, T, S> *)

\* variant: an index signature, every name is a member
SetterTypeChecksAny(S, k) == TRUE

\* [K in keyof T]-?: only T's declared names are members of the handle type
SetterTypeChecks(S, k) == k \in Fields

\* variant: Builder<C, T, Pick<T, K>>, forgetting S
SetterTypeOnlyK(S, k) == {k}

\* (value: T[K]) => Builder<C, T, S & Pick<T, K>>
SetterType(S, k) == S \cup {k}

\* the static type of what handle.k(v) evaluates to; a call the compiler did
\* not check (types erased) narrows nothing
ReturnType(S, k) == IF SetterTypeChecks(S, k) THEN SetterType(S, k) ELSE S

\* variants: build() with no this-constraint; build() wanting Required<T>
BuildTypeChecksAlways(S) == TRUE
BuildTypeChecksAllFields(S) == Fields \subseteq S

\* build(this: Builder<C, T, T>): the handle's [_builderSymbol]: S must be
\* assignable to T, i.e. S must have every required property of T
BuildTypeChecks(S) == Required \subseteq S

\* builderDef<.., S extends Partial<T>>(template: S): Builder<C, T, S>
TemplateType(t) == DOMAIN t

----------------------------------------------------------------------------
(* Runtime layer: builderDef *)

\* variant: const base = template, no copy
NewBaseIsTemplate(p) == TemplateObj

\* variant: const base = {}
SpreadNothing(t) == [k \in {} |-> Undefined]

\* const base = { ...template }: a fresh object holding template's own pairs
Spread(t) == [k \in DOMAIN t |-> t[k]]
\* the fresh object's id is the builder's
NewBase(p) == p

\* variants: the write drops the other pairs; keeps an existing value;
\* overwrites every value
WriteReplaceAll(rec, k, v) == [x \in {k} |-> v]
WriteFirstWins(rec, k, v) == [x \in DOMAIN rec \cup {k} |-> IF x \in DOMAIN rec THEN rec[x] ELSE v]
WriteClobber(rec, k, v) == [x \in DOMAIN rec \cup {k} |-> v]

\* target[prop] = x
Write(rec, k, v) == [x \in DOMAIN rec \cup {k} |-> IF x = k THEN v ELSE rec[x]]

\* property read on a plain object: undefined when absent
Field(rec, k) == IF k \in DOMAIN rec THEN rec[k] ELSE Undefined

\* the finalizer of the README: ({ email, id }) => new User(email, id)
Ctor(fields) == [class |-> "User", email |-> Field(fields, "email"), id |-> Field(fields, "id")]

\* variant: the trap has no 'build' case, every property is a setter
ProxyGetAllSetters(hasCtor, prop) == "setter"

\* variant: the trap ignores ctor
ProxyGetNoCtor(hasCtor, prop) == IF prop = "build" THEN "targetThunk" ELSE "setter"

\* the Proxy's get trap: which closure a property read yields
ProxyGet(hasCtor, prop) ==
    IF prop = "build"
    THEN IF hasCtor THEN "ctorThunk" ELSE "targetThunk"
    ELSE "setter"

\* variant: the setter hands back something other than its own Proxy
SetterReturnOther(p) == 0

\* return handler: the setter hands back the Proxy it was read from
SetterReturn(p) == p

\* a handle: the chain (creation call) it was obtained along, the Proxy it
\* denotes, and the field set S of its static type
Handle(c, p, S) == [chain |-> c, p |-> p, S |-> S]

NoRet == [kind |-> "none", h |-> Handle(0, 0, {}), obj |-> TemplateObj, val |-> Empty]
NoCall == [op |-> "init", k |-> ""]

\* the caller keeps at most MaxHandles handles per chain; later ones are
\* used for the call that made them and then discarded
Keep(hs, h) ==
    IF h \in hs \/ Cardinality({x \in hs : x.chain = h.chain}) < MaxHandles
    THEN hs \cup {h} ELSE hs

----------------------------------------------------------------------------
Init ==
    /\ tmpl \in Templates
    /\ nb = 0
    /\ heap = [o \in Objects |-> IF o = TemplateObj THEN tmpl ELSE Empty]
    /\ target = [p \in Proxies |-> TemplateObj]
    /\ ctor = [p \in Proxies |-> FALSE]
    /\ origin = [p \in Builders |-> "none"]
    /\ handles = {}
    /\ written = [p \in Builders |-> Empty]
    /\ ret = NoRet
    /\ last = NoCall

\* builderDef(template) / builderDef(template, ctor)
BuilderDef(p, t, S, hasCtor, from) ==
    /\ heap' = [heap EXCEPT ![NewBase(p)] = Spread(t)]
    /\ target' = [target EXCEPT ![p] = NewBase(p)]
    /\ ctor' = [ctor EXCEPT ![p] = hasCtor]
    /\ origin' = [origin EXCEPT ![p] = from]
    /\ handles' = Keep(handles, Handle(p, p, S))
    /\ nb' = p
    /\ last' = [op |-> "create", k |-> ""]
    /\ UNCHANGED <<tmpl, written, ret>>

CreateWithTemplate ==
    /\ nb < MaxBuilders
    /\ \E hasCtor \in BOOLEAN :
          BuilderDef(nb + 1, heap[TemplateObj], TemplateType(heap[TemplateObj]), hasCtor, "template")

\* builder() / builder(ctor): builderDef({}) / builderDef({}, ctor)
Create ==
    /\ nb < MaxBuilders
    /\ \E hasCtor \in BOOLEAN :
          BuilderDef(nb + 1, Empty, TemplateType(Empty), hasCtor, "empty")

\* the closure the trap made for a property other than 'build':
\* (x) => { target[prop] = x; return handler; }
SetterRun(h, k, v) ==
    /\ heap' = [heap EXCEPT ![target[h.p]] = Write(@, k, v)]
    /\ handles' = Keep(handles, Handle(h.chain, SetterReturn(h.p), ReturnType(h.S, k)))
    /\ written' = [written EXCEPT ![h.chain] = [x \in DOMAIN @ \cup {k} |-> IF x = k THEN v ELSE @[x]]]
    /\ last' = [op |-> "set", k |-> k]
    /\ UNCHANGED <<tmpl, nb, target, ctor, origin, ret>>

\* variant: the thunk hands the store over and leaves the builder empty
BuildRunConsumes(h, thunk) ==
    /\ ret' = IF thunk = "ctorThunk"
              THEN [kind |-> "val", h |-> h, obj |-> TemplateObj, val |-> Ctor(heap[target[h.p]])]
              ELSE [kind |-> "ref", h |-> h, obj |-> target[h.p], val |-> Empty]
    /\ heap' = [heap EXCEPT ![target[h.p]] = Empty]
    /\ last' = [op |-> "build", k |-> "build"]
    /\ UNCHANGED <<tmpl, nb, target, ctor, origin, handles, written>>

\* variant: the thunk returns a copy, () => ({ ...target })
BuildRunSnapshot(h, thunk) ==
    /\ ret' = IF thunk = "ctorThunk"
              THEN [kind |-> "val", h |-> h, obj |-> TemplateObj, val |-> Ctor(heap[target[h.p]])]
              ELSE [kind |-> "val", h |-> h, obj |-> TemplateObj, val |-> Spread(heap[target[h.p]])]
    /\ last' = [op |-> "build", k |-> "build"]
    /\ UNCHANGED <<tmpl, nb, heap, target, ctor, origin, handles, written>>

\* the closure the trap made for 'build': () => ctor(target) or () => target
BuildRun(h, thunk) ==
    /\ ret' = IF thunk = "ctorThunk"
              THEN [kind |-> "val", h |-> h, obj |-> TemplateObj, val |-> Ctor(heap[target[h.p]])]
              ELSE [kind |-> "ref", h |-> h, obj |-> target[h.p], val |-> Empty]
    /\ last' = [op |-> "build", k |-> "build"]
    /\ UNCHANGED <<tmpl, nb, heap, target, ctor, origin, handles, written>>

\* variant: a built flag, after build() the handle accepts no further call
InvokeUntilBuilt(h, prop, v) ==
    /\ ret.kind = "none"
    /\ IF ProxyGet(ctor[h.p], prop) = "setter"
       THEN SetterRun(h, prop, v)
       ELSE BuildRun(h, ProxyGet(ctor[h.p], prop))

\* handle[prop](v) at run time: read prop through the Proxy, call the result
Invoke(h, prop, v) ==
    IF ProxyGet(ctor[h.p], prop) = "setter"
    THEN SetterRun(h, prop, v)
    ELSE BuildRun(h, ProxyGet(ctor[h.p], prop))

\* handle.k(v), accepted by the compiler
Setter(h, k, v) ==
    /\ SetterTypeChecks(h.S, k)
    /\ Invoke(h, k, v)

\* handle.build(), accepted by the compiler
Finalize(h) ==
    /\ BuildTypeChecks(h.S)
    /\ Invoke(h, "build", Undefined)

\* a call the compiler refuses: nothing runs
Rejected(h, k) ==
    /\ \/ k = "build" /\ ~BuildTypeChecks(h.S)
       \/ k # "build" /\ ~SetterTypeChecks(h.S, k)
    /\ last' = [op |-> "typeError", k |-> k]
    /\ UNCHANGED <<tmpl, nb, heap, target, ctor, origin, handles, written, ret>>

CallSetter == \E h \in handles, k \in Props \ {"build"}, v \in Values : Setter(h, k, v)
CallBuild == \E h \in handles : Finalize(h)
CallRejected == \E h \in handles, k \in Props : Rejected(h, k)

Next == CreateWithTemplate \/ Create \/ CallSetter \/ CallBuild \/ CallRejected

\* The program as the compiler admits it
Spec == Init /\ [][Next]_vars

\* The same calls made with the types erased (from JavaScript, or through a
\* handle cast to any): the Proxy alone decides what a call does
UntypedSetter == \E h \in handles, k \in Props \ {"build"}, v \in Values : Invoke(h, k, v)
\* handle.build() or handle.build(v): the thunk takes no parameter
UntypedBuild == \E h \in handles, v \in Values \cup {Undefined} : Invoke(h, "build", v)

NextRT == CreateWithTemplate \/ Create \/ UntypedSetter \/ UntypedBuild

SpecRT == Init /\ [][NextRT]_vars

\* Two creation calls on the one template object, both without a finalizer:
\* builderDef(template) twice, each followed by its own chain of calls
PairBuilders == 1..(MaxBuilders + 1)

InitPair ==
    /\ tmpl \in Templates
    /\ nb = 0
    /\ heap = [o \in {TemplateObj} \cup PairBuilders |-> IF o = TemplateObj THEN tmpl ELSE Empty]
    /\ target = [p \in {0} \cup PairBuilders |-> TemplateObj]
    /\ ctor = [p \in {0} \cup PairBuilders |-> FALSE]
    /\ origin = [p \in PairBuilders |-> "none"]
    /\ handles = {}
    /\ written = [p \in PairBuilders |-> Empty]
    /\ ret = NoRet
    /\ last = NoCall

PairCreate ==
    /\ nb + 1 \in PairBuilders
    /\ BuilderDef(nb + 1, heap[TemplateObj], TemplateType(heap[TemplateObj]), FALSE, "template")

NextPair == PairCreate \/ CallSetter \/ CallBuild

SpecPair == InitPair /\ [][NextPair]_vars

----------------------------------------------------------------------------
(* What the caller handed in, kept apart from the heap the code writes *)

Created == 1..nb

\* the record a chain started from: the template's pairs, or none
Initial(c) == IF origin[c] = "template" THEN tmpl ELSE Empty

\* every pair the chain was given: its template's, overridden by the latest
\* value passed to each setter
Stored(c) ==
    [x \in DOMAIN Initial(c) \cup DOMAIN written[c] |->
        IF x \in DOMAIN written[c] THEN written[c][x] ELSE Initial(c)[x]]

\* the record a handle's Proxy reads and writes
Store(h) == heap[target[h.p]]

Restrict(f, D) == [x \in D |-> f[x]]

\* rec after one setter call per pair of t
RECURSIVE WriteAll(_, _)
WriteAll(rec, t) ==
    IF DOMAIN t = {} THEN rec
    ELSE LET k == CHOOSE x \in DOMAIN t : TRUE
         IN  WriteAll(Write(rec, k, t[k]), Restrict(t, DOMAIN t \ {k}))

----------------------------------------------------------------------------
\* C1: build() through a handle whose S lacks a required field is refused,
\* so whatever build() returned was built through a handle covering every
\* required field, from a store that holds every required field.
BuildNeedsRequired ==
    /\ \A h \in handles : ~(Required \subseteq h.S) => ~ENABLED Finalize(h)
    /\ ret.kind # "none" =>
          /\ Required \subseteq ret.h.S
          /\ Required \subseteq DOMAIN Store(ret.h)
    /\ ret.kind = "val" => ret.val.email # Undefined /\ ret.val.id # Undefined

\* C1 witness: build() was just refused on a builder holding id but no email
BuildRefusedWitness ==
    /\ last = [op |-> "typeError", k |-> "build"]
    /\ \E h \in handles : h.S = {"id"} /\ DOMAIN Store(h) = {"id"}

\* C2: without a finalizer, build() returns the record holding exactly the
\* pairs stored so far (template pairs and the latest setter values).
BuildReturnsStored ==
    (ret.kind = "ref" /\ ~ctor[ret.h.p]) =>
        /\ heap[ret.obj] = Stored(ret.h.chain)
        /\ DOMAIN heap[ret.obj] = DOMAIN Initial(ret.h.chain) \cup DOMAIN written[ret.h.chain]

\* C2 witness: build() just returned after setters supplied all of T's fields
\* to a builder that started empty
BuildReturnsStoredWitness ==
    /\ last.op = "build" /\ ret.kind = "ref"
    /\ origin[ret.h.chain] = "empty"
    /\ DOMAIN written[ret.h.chain] = Fields

\* C3: every handle of a chain denotes the chain's one Proxy and so one
\* store: what any handle wrote is what every handle reads, and build()
\* through any of them returns that store.
SharedStore ==
    /\ \A h \in handles :
          /\ h.p = h.chain
          /\ target[h.p] = NewBase(h.chain)
          /\ Store(h) = Stored(h.chain)
    /\ \A h1, h2 \in handles : h1.chain = h2.chain => target[h1.p] = target[h2.p]
    /\ ret.kind = "ref" => heap[ret.obj] = Stored(ret.h.chain)

\* C3 witness: b0, b1 = b0.email(x), b2 = b1.id(1) are all held, and build()
\* through b0 returned the record with both fields
SharedStoreWitness ==
    /\ last.op = "build"
    /\ \E c \in Created :
          /\ origin[c] = "empty"
          /\ {Handle(c, c, {}), Handle(c, c, {"email"}), Handle(c, c, {"email", "id"})} \subseteq handles
          /\ ret.kind = "ref" /\ ret.h = Handle(c, c, {})
          /\ DOMAIN heap[ret.obj] = {"email", "id"}

\* a step keeps every handle with its S, and a handle it adds is a creation
\* handle or has S' = S \cup {k} for the S of a handle of the same chain
SGrowsStep ==
    /\ handles \subseteq handles'
    /\ \A nh \in handles' \ handles :
          \/ /\ last'.op = "create"
             /\ nh.S = DOMAIN Initial(nh.chain)'
          \/ /\ last'.op = "set"
             /\ \E h \in handles :
                   /\ h.chain = nh.chain
                   /\ nh.S = h.S \cup {last'.k}
                   /\ h.S \subseteq nh.S

FinalizerApplied ==
    ret.kind # "none" =>
        IF ctor[ret.h.chain]
        THEN /\ ret.kind = "val"
             /\ last.op = "build" => ret.val = Ctor(Stored(ret.h.chain))
        ELSE /\ ret.kind = "ref"
             /\ ret.obj = target[ret.h.chain]

\* C6 witness: a finalizer just ran on a store holding a template pair and a
\* pair set by a setter
FinalizerAppliedWitness ==
    /\ last.op = "build" /\ ret.kind = "val"
    /\ origin[ret.h.chain] = "template"
    /\ "id" \in DOMAIN tmpl /\ "email" \notin DOMAIN tmpl
    /\ "email" \in DOMAIN written[ret.h.chain]
    /\ ret.val = [class |-> "User", email |-> written[ret.h.chain]["email"], id |-> tmpl["id"]]

\* C7: a builder made from a template starts as if each template pair had
\* been set: its first handle has S = keys(template), its store is the empty
\* store after one setter call per template pair, and build() before any
\* setter call returns the template's pairs.
TemplateAsSetters ==
    \A c \in Created :
        origin[c] = "template" =>
            /\ Handle(c, c, DOMAIN tmpl) \in handles
            /\ written[c] = Empty =>
                  /\ heap[target[c]] = WriteAll(Empty, tmpl)
                  /\ heap[target[c]] = tmpl
                  /\ (ret.kind = "ref" /\ ret.h.chain = c) => heap[ret.obj] = tmpl
                  /\ \A h \in handles : h.chain = c => h.S = DOMAIN tmpl

\* C7 witness: build() returned {id: v} straight after creation from {id: v}
TemplateAsSettersWitness ==
    /\ last.op = "build" /\ ret.kind = "ref"
    /\ origin[ret.h.chain] = "template"
    /\ written[ret.h.chain] = Empty
    /\ DOMAIN tmpl = Required
    /\ heap[ret.obj] = tmpl

\* C8: the latest value set for a field is the one the store and the result
\* hold, also over a template value, and setting v1 then v2 leaves the store
\* as setting v2 alone does.
LastWriteWins ==
    \A c \in Created :
        /\ \A k \in DOMAIN written[c] :
              /\ k \in DOMAIN heap[target[c]]
              /\ heap[target[c]][k] = written[c][k]
        /\ \A k \in Fields, v1, v2 \in Values :
              Write(Write(heap[target[c]], k, v1), k, v2) = Write(heap[target[c]], k, v2)
        /\ (ret.kind = "ref" /\ ret.h.chain = c) =>
              \A k \in DOMAIN written[c] : heap[ret.obj][k] = written[c][k]

\* C8 witness: a setter just replaced a template value by a different one
LastWriteWinsWitness ==
    /\ last.op = "set"
    /\ \E c \in Created :
          /\ origin[c] = "template"
          /\ last.k \in DOMAIN tmpl
          /\ heap[target[c]][last.k] # tmpl[last.k]

OptionalMayBeOmitted ==
    /\ \A h \in handles : Required \subseteq h.S => ENABLED Finalize(h)
    /\ ret.kind = "ref" =>
          \A k \in Optional :
              (k \notin DOMAIN Initial(ret.h.chain) /\ k \notin DOMAIN written[ret.h.chain])
                  => k \notin DOMAIN heap[ret.obj]

\* C10 witness: build() just returned {email, id} with age never supplied
OptionalMayBeOmittedWitness ==
    /\ last.op = "build" /\ ret.kind = "ref"
    /\ ret.h.S = Required
    /\ DOMAIN heap[ret.obj] = Required

\* a setter step writes one key of one store and touches nothing else: every
\* other object, every other key of that store, and the set of objects and
\* Proxies stay as they were
OneWriteStep ==
    last'.op = "set" =>
        /\ target' = target /\ nb' = nb /\ ctor' = ctor
        /\ \E c \in Created :
              /\ \A o \in Objects \ {target[c]} : heap'[o] = heap[o]
              /\ DOMAIN heap'[target[c]] = DOMAIN heap[target[c]] \cup {last'.k}
              /\ \A x \in DOMAIN heap[target[c]] \ {last'.k} :
                    heap'[target[c]][x] = heap[target[c]][x]
              /\ heap'[target[c]][last'.k] = written'[c][last'.k]

\* C11: a setter call for k makes exactly one write, to key k of the shared
\* store, leaves every other key and every other object unchanged and makes
\* no new object; so n setter calls make n field writes.
SetterWritesOneKey == [][OneWriteStep]_vars

\* C11 witness: a setter has just written age into a store that already held
\* email and id, which kept their values
SetterWritesOneKeyWitness ==
    /\ last = [op |-> "set", k |-> "age"]
    /\ \E c \in Created :
          /\ origin[c] = "empty"
          /\ DOMAIN heap[target[c]] = Fields
          /\ heap[target[c]] = written[c]
          /\ heap[target[c]]["email"] # heap[target[c]]["age"]

\* a build() step on a builder without a finalizer changes no object, no
\* handle and no Proxy; when it follows another such build() of the same
\* chain, it returns the same record with the same pairs
BuildReadsStep ==
    (last'.op = "build" /\ ret'.kind = "ref") =>
        /\ heap' = heap /\ handles' = handles /\ written' = written
        /\ target' = target /\ ctor' = ctor /\ nb' = nb
        /\ (last.op = "build" /\ ret.kind = "ref" /\ ret.h.chain = ret'.h.chain) =>
              /\ ret'.obj = ret.obj
              /\ heap'[ret'.obj] = heap[ret.obj]

\* C12: build() without a finalizer only reads: it leaves the backing store
\* and every handle's S unchanged, so two build() calls with no setter call
\* in between return equal records.
BuildOnlyReads == [][BuildReadsStep]_vars

\* C12 witness: build() has just returned from a builder without a finalizer
\* whose store still holds the template's pair and the pair a setter wrote
BuildOnlyReadsWitness ==
    /\ last.op = "build" /\ ret.kind = "ref"
    /\ origin[ret.h.chain] = "template"
    /\ DOMAIN tmpl = {"id"}
    /\ DOMAIN written[ret.h.chain] = {"email"}
    /\ heap[ret.obj] = Stored(ret.h.chain)
    /\ DOMAIN heap[ret.obj] = Required

\* C13: there is no 'already built' state at run time: once build() has
\* returned, every setter and build() can still be called through every
\* handle, and a build() made later returns what the store then holds, the
\* later writes included.
NoBuiltState ==
    ret.kind # "none" =>
        /\ \A h \in handles :
              /\ ENABLED Invoke(h, "build", Undefined)
              /\ \A k \in Props \ {"build"}, v \in Values : ENABLED Invoke(h, k, v)
        /\ (last.op = "build" /\ ret.kind = "ref") => heap[ret.obj] = Stored(ret.h.chain)
        /\ (last.op = "build" /\ ret.kind = "val") => ret.val = Ctor(Stored(ret.h.chain))

\* C13 witness: after build() returned through the handle typed {email, id},
\* a setter has just written age through a handle of the same chain
NoBuiltStateWitness ==
    /\ last = [op |-> "set", k |-> "age"]
    /\ ret.kind = "ref"
    /\ ret.h.S = Required
    /\ origin[ret.h.chain] = "empty"
    /\ DOMAIN heap[ret.obj] = Fields
    /\ heap[ret.obj] = written[ret.h.chain]

\* a later build() of the same chain returns the object the earlier one
\* returned, and a setter step leaves the returned record holding the
\* store's new pairs
SameRecordStep ==
    /\ (ret.kind = "ref" /\ ret'.kind = "ref" /\ ret'.h.chain = ret.h.chain) =>
          ret'.obj = ret.obj
    /\ (ret.kind = "ref" /\ ret' = ret /\ last'.op = "set") =>
          /\ heap'[ret.obj] = Stored(ret.h.chain)'
          /\ written'[ret.h.chain] # written[ret.h.chain] =>
                /\ last'.k \in DOMAIN heap'[ret.obj]
                /\ heap'[ret.obj][last'.k] = written'[ret.h.chain][last'.k]

\* C14: without a finalizer the record build() returned is the backing store
\* itself, not a snapshot: it always holds the store's current pairs, so a
\* later setter call through any handle changes it, and two build() calls
\* return the same object.
ReturnedRecordIsStore ==
    /\ []((ret.kind # "none" /\ ~ctor[ret.h.p]) =>
             /\ ret.kind = "ref"
             /\ ret.obj = target[ret.h.p]
             /\ heap[ret.obj] = Store(ret.h))
    /\ [][SameRecordStep]_vars

\* C14 witness: build() returned the store of a builder made from {id: v};
\* a setter has since replaced id, and the returned record shows the new id
ReturnedRecordIsStoreWitness ==
    /\ last = [op |-> "set", k |-> "id"]
    /\ ret.kind = "ref"
    /\ origin[ret.h.chain] = "template"
    /\ "id" \in DOMAIN tmpl
    /\ heap[ret.obj]["id"] # tmpl["id"]
    /\ heap[TemplateObj] = tmpl

\* C15: the store is a copy made at creation: the caller's template object
\* never changes, each builder wraps an object of its own, and each store
\* and each build() result holds its own chain's pairs only, also for two
\* builders made from one template object.
StoresIndependent ==
    /\ heap[TemplateObj] = tmpl
    /\ \A c \in Created :
          /\ target[c] # TemplateObj
          /\ heap[target[c]] = Stored(c)
    /\ \A c1, c2 \in Created : c1 # c2 => target[c1] # target[c2]
    /\ ret.kind = "ref" =>
          /\ ret.obj = target[ret.h.chain]
          /\ heap[ret.obj] = Stored(ret.h.chain)

\* C15 witness: two builders made from one template object; age was set on
\* the first only, and build() on the second has just returned a record
\* without age, the template object still as the caller made it
StoresIndependentWitness ==
    /\ nb = 2
    /\ last.op = "build" /\ ret.kind = "ref" /\ ret.h.chain = 2
    /\ origin[1] = "template" /\ origin[2] = "template"
    /\ DOMAIN tmpl = {"id"}
    /\ "age" \in DOMAIN written[1] /\ "age" \in DOMAIN heap[target[1]]
    /\ DOMAIN heap[ret.obj] = Required
    /\ heap[TemplateObj] = tmpl

\* a call of 'build' changes no store and records no written pair
BuildCallStep ==
    last'.op = "build" => heap' = heap /\ written' = written

\* C16: reading 'build' through the Proxy always yields the finalize thunk,
\* never a setter: no call through the builder puts a pair named build into
\* a store, a call of 'build' (with or without an argument) writes nothing,
\* and every other property name yields a setter that writes under its name.
BuildIsNeverASetter ==
    /\ [](\A c \in Created :
             /\ "build" \notin DOMAIN heap[target[c]]
             /\ "build" \notin DOMAIN written[c])
    /\ [](last.op = "set" =>
             /\ last.k # "build"
             /\ \E c \in Created :
                   /\ last.k \in DOMAIN heap[target[c]]
                   /\ heap[target[c]][last.k] = written[c][last.k])
    /\ [](\A h \in handles, k \in Props :
             (ProxyGet(ctor[h.p], k) = "setter") <=> (k # "build"))
    /\ [][BuildCallStep]_vars

\* C16 witness: 'build' has just been called on a builder whose store holds
\* the undeclared name zip, written by the setter the trap made for it, and
\* no pair named build
BuildIsNeverASetterWitness ==
    /\ last = [op |-> "build", k |-> "build"]
    /\ ret.kind = "ref"
    /\ "zip" \in DOMAIN written[ret.h.chain]
    /\ "zip" \in DOMAIN heap[ret.obj]
    /\ "build" \notin DOMAIN heap[ret.obj]

====
